---- MODULE Spec2Model ----
(***************************************************************************)
(* The B-tree of btree-cache-benchmark (package btree).                    *)
(*                                                                         *)
(* Nodes live in a heap: a sequence of node records, a node's identity is  *)
(* its index (a Go pointer), NIL is the nil pointer.  A leaf holds the Go  *)
(* map `values`; an inner node holds `children` (node identities) and the  *)
(* separator `keys`.                                                       *)
(*                                                                         *)
(* Spec      the operations as src/btree/btree.go (interface-node version, *)
(*           lines 233-533) and the integrity checker define them.  A Go   *)
(*           panic unwinds to the caller; the tree keeps what the call did *)
(*           before it, and the caller may go on using the tree.           *)
(* SpecRepair Insert with split propagation (replace), the access counter  *)
(*           and the rebalance counter; the descent, the store into the    *)
(*           leaf and the leaf split are those of src/btree/btree.go.      *)
(* SpecRepairWide  SpecRepair on a tree of order MaxOrder + 1, with two    *)
(*           keys more.                                                    *)
(* SpecAttach  SpecRepair on a tree made without the access-counter       *)
(*           callback, SetAccessCounter being called between the Inserts.  *)
(* SpecRange SpecRepair with the order of the range loops over a leaf's    *)
(*           map left open.                                                *)
(* SpecTrees Find and IntegrityCheck applied to given trees, well formed   *)
(*           or not.                                                       *)
(* SpecTreesInsert  Insert of src/btree/btree.go applied to those of the   *)
(*           given trees that IntegrityCheck accepts.                      *)
(***************************************************************************)
EXTENDS Integers, Sequences, FiniteSets, TLC

MaxOrder == 3
MaxKey == 3
MaxVal == 2
MaxRepairKey == 6

NIL == 0
ZeroValue == 0

\* Which nodes hold the access-counter callback: whether the tree has one,
\* and then every node made after the heap had `since` nodes, and the node
\* `retrofitted`.  NewWithAccessCounter gives it to the first node already.
NewWithAccessCounter == [set |-> TRUE, since |-> 0, retrofitted |-> NIL]
NewWithoutCounter == [set |-> FALSE, since |-> 0, retrofitted |-> NIL]

\* Every node reports once the tree has a callback.
holdsCounter_anyNode(ac, n) == ac.set

holdsCounter(ac, n) == ac.set /\ (n > ac.since \/ n = ac.retrofitted)

Orders == 2..MaxOrder
Keys == 1..MaxKey
Vals == 1..MaxVal
RepairKeys == 1..MaxRepairKey
\* Keys a caller looks up: the insertable ones, and one below and one above.
FindKeys == 0..(MaxKey + 1)

NoPanic == "none"
NoError == "nil"
\* The panic of slices.Min and slices.Max on an empty slice.
PanicEmptyMin == "slices.Min: empty list"

VARIABLES
  order,          \* Btree.order
  heap,           \* the nodes allocated so far
  root,           \* Btree.root
  ret,            \* the last call and how it ended
  inserted,       \* key -> value of the latest Insert call of that key
  repeated,       \* some Insert call named a key an earlier one had named
  accessed,       \* the node identities the access-counter callback was given
  rebalanceCount, \* how often the rebalance-counter callback was called
  accessCounter   \* which nodes hold the access-counter callback

vars == <<order, heap, root, ret, inserted, repeated, accessed, rebalanceCount, accessCounter>>

----------------------------------------------------------------------------
(* Go values *)

\* m[k] = v on a Go map.
MapPut(m, k, v) == [x \in (DOMAIN m) \cup {k} |-> IF x = k THEN v ELSE m[x]]

MapLen(m) == Cardinality(DOMAIN m)

SetMin(S) == CHOOSE x \in S : \A y \in S : x <= y
SetMax(S) == CHOOSE x \in S : \A y \in S : y <= x

\* slices.Sort on a slice given as a sequence.
RECURSIVE InsertSorted(_, _)
InsertSorted(s, x) ==
  IF s = <<>> THEN <<x>>
  ELSE IF x <= Head(s) THEN <<x>> \o s
  ELSE <<Head(s)>> \o InsertSorted(Tail(s), x)

RECURSIVE slicesSort(_)
slicesSort(s) == IF s = <<>> THEN <<>> ELSE InsertSorted(slicesSort(Tail(s)), Head(s))

\* The keys of a map appended to a slice, `for k := range m`.  Go leaves the
\* iteration order open; every use below sorts or only collects, so the
\* ascending order stands for all of them.
RECURSIVE SetToSeq(_)
SetToSeq(S) == IF S = {} THEN <<>> ELSE <<SetMin(S)>> \o SetToSeq(S \ {SetMin(S)})

\* slices.IsSorted: non-decreasing.
IsSorted(s) == \A i \in 1..(Len(s) - 1) : s[i] <= s[i + 1]

----------------------------------------------------------------------------
(* Nodes *)

newLeafNode ==
  [kind |-> "leaf", values |-> <<>>, children |-> <<>>, keys |-> <<>>, parent |-> NIL]

innerNode(children, keys, parent) ==
  [kind |-> "inner", values |-> <<>>, children |-> children, keys |-> keys, parent |-> parent]

isLeaf(h, n) == h[n].kind = "leaf"

isRoot(h, n) == h[n].parent = NIL

getParent(h, n) == h[n].parent

\* innerNode.findLeafNodeByKey and leafNode.findLeafNodeByKey.  The loop over
\* the separators assigns foundNodeIndex at every separator greater than the
\* key and does not stop, so the last such index stands.  NIL: the assertion
\* on the index failed.
innerFoundNodeIndex(keys, seekedKey) ==
  LET hits == {i \in 1..Len(keys) : keys[i] > seekedKey}
  IN IF hits = {} THEN Len(keys) + 1 ELSE SetMax(hits)

RECURSIVE findLeafNodeByKey(_, _, _)
findLeafNodeByKey(h, n, seekedKey) ==
  IF isLeaf(h, n) THEN n
  ELSE LET i == innerFoundNodeIndex(h[n].keys, seekedKey)
       IN IF i <= Len(h[n].children)
          THEN findLeafNodeByKey(h, h[n].children[i], seekedKey)
          ELSE NIL

\* A wrong read: the one-value map read followed by a store gives an absent
\* key the zero value in the leaf.
Find_storesZero(h, r, key) ==
  LET n == findLeafNodeByKey(h, r, key)
  IN IF n # NIL /\ key \in DOMAIN h[n].values
     THEN [value |-> h[n].values[key], ok |-> TRUE, panic |-> FALSE, heap |-> h]
     ELSE IF n # NIL
          THEN [value |-> ZeroValue, ok |-> FALSE, panic |-> FALSE,
                heap |-> [h EXCEPT ![n].values = MapPut(@, key, ZeroValue)]]
          ELSE [value |-> ZeroValue, ok |-> FALSE, panic |-> TRUE, heap |-> h]

\* Btree.Find: (value, ok) of the two-value map read n.values[key], which
\* leaves the map as it is; heap is the heap the call leaves.
Find(h, r, key) ==
  LET n == findLeafNodeByKey(h, r, key)
  IN IF n # NIL /\ key \in DOMAIN h[n].values
     THEN [value |-> h[n].values[key], ok |-> TRUE, panic |-> (n = NIL), heap |-> h]
     ELSE [value |-> ZeroValue, ok |-> FALSE, panic |-> (n = NIL), heap |-> h]

----------------------------------------------------------------------------
(* Insert, as src/btree/btree.go:294-311 *)

\* leafNode.isFull: asserts len(values) < order, then len(values) == order-1.
isFull(h, n, ord) ==
  [panic |-> ~(MapLen(h[n].values) < ord),
   full |-> MapLen(h[n].values) = ord - 1]

\* leafNode.insertAssumingHasSpace.
insertAssumingHasSpace(h, n, key, value) ==
  [h EXCEPT ![n].values = MapPut(h[n].values, key, value)]

\* leafNode.medianKeyForChildrenAndKey.  The slice is made with length 0 and
\* capacity len(values)+1; the loop appends every key of the map, so the
\* slice's length is len(values); then keys[len(values)] = key indexes it.
\* Go checks an index against the length, not the capacity.
medianKeyForChildrenAndKey(h, n, key) ==
  LET appended == SetToSeq(DOMAIN h[n].values)
      idx == MapLen(h[n].values) + 1
  IN IF idx > Len(appended)
     THEN [panic |-> TRUE, median |-> 0]
     ELSE LET sorted == slicesSort([appended EXCEPT ![idx] = key])
          IN [panic |-> FALSE, median |-> sorted[(Len(sorted) \div 2) + 1]]

\* A wrong split: the right leaf keeps every pair.
splitAroundMedian_keepsAll(h, n, median) ==
  LET vs == h[n].values
      L == {k \in DOMAIN vs : k < median}
  IN [left |-> [newLeafNode EXCEPT !.values = [k \in L |-> vs[k]]],
      right |-> [newLeafNode EXCEPT !.values = vs]]

\* splitAroundMedian without the else branch: the pairs from the median on
\* reach neither leaf.
splitAroundMedian_noRight(h, n, median) ==
  LET vs == h[n].values
      L == {k \in DOMAIN vs : k < median}
  IN [left |-> [newLeafNode EXCEPT !.values = [k \in L |-> vs[k]]],
      right |-> newLeafNode]

\* leafNode.splitAroundMedian: two new leaves, keys below the median left, the
\* others right.
splitAroundMedian(h, n, median) ==
  LET vs == h[n].values
      L == {k \in DOMAIN vs : k < median}
      R == {k \in DOMAIN vs : ~(k < median)}
  IN [left |-> [newLeafNode EXCEPT !.values = [k \in L |-> vs[k]]],
      right |-> [newLeafNode EXCEPT !.values = [k \in R |-> vs[k]]]]

\* newInnerNodeForSplitLeafs on the heap: the two leaves and their new parent
\* are appended; the leaves' parent fields are set (both asserted nil before).
newInnerNodeForSplitLeafs(h, leftLeaf, rightLeaf, median) ==
  LET l == Len(h) + 1
      r == Len(h) + 2
      p == Len(h) + 3
  IN [panic |-> (leftLeaf.parent # NIL \/ rightLeaf.parent # NIL),
      node |-> p,
      heap |-> h \o << [leftLeaf EXCEPT !.parent = p],
                       [rightLeaf EXCEPT !.parent = p],
                       innerNode(<<l, r>>, <<median>>, NIL) >>]

\* replaceRoot that leaves the root reference as it was.
replaceRoot_keeps(r, n) == r

\* Btree.replaceRoot.
replaceRoot(r, n) == n

\* Btree.Insert.  The result is the heap and root the call leaves and the
\* panic that ended it (NoPanic: it returned).
Insert(h, r, ord, key, value) ==
  LET leaf == findLeafNodeByKey(h, r, key)
  IN IF leaf = NIL
     THEN [heap |-> h, root |-> r, panic |-> "there always must be some leaf node"]
     ELSE
       LET f == isFull(h, leaf, ord)
       IN IF f.panic
          THEN [heap |-> h, root |-> r,
                panic |-> "length of values array must be smaller than order"]
          ELSE
            LET h1 == IF ~f.full THEN insertAssumingHasSpace(h, leaf, key, value) ELSE h
                m == medianKeyForChildrenAndKey(h1, leaf, key)
            IN IF m.panic
               THEN [heap |-> h1, root |-> r, panic |-> "index out of range"]
               ELSE
                 LET s == splitAroundMedian(h1, leaf, m.median)
                     p == newInnerNodeForSplitLeafs(h1, s.left, s.right, m.median)
                 IN IF p.panic
                    THEN [heap |-> h1, root |-> r,
                          panic |-> "after split, leaf parent should be null"]
                    ELSE IF isRoot(h1, leaf)
                    THEN [heap |-> p.heap, root |-> replaceRoot(r, p.node), panic |-> NoPanic]
                    ELSE [heap |-> p.heap, root |-> r, panic |-> "dupa"]

----------------------------------------------------------------------------
(* IntegrityCheck *)

\* keyPerNodeChecker.collectKeysPerNode: the keys stored under a node.
RECURSIVE collectKeysPerNode(_, _)
collectKeysPerNode(h, n) ==
  IF isLeaf(h, n) THEN DOMAIN h[n].values
  ELSE UNION {collectKeysPerNode(h, h[n].children[i]) : i \in 1..Len(h[n].children)}

integrityCheckLeafSize(h, ord, level, n) ==
  IF isLeaf(h, n) /\ MapLen(h[n].values) > ord
  THEN "size of the leaf node is larger than the order"
  ELSE NoError

integrityCheckKeyAndChildrenLen(h, ord, level, n) ==
  IF isLeaf(h, n) THEN NoError
  ELSE IF Len(h[n].children) # Len(h[n].keys) + 1 THEN "len children != len keys + 1"
  ELSE IF ~IsSorted(h[n].keys) THEN "keys are not sorted"
  ELSE NoError

integrityCheckAllButRootHaveParent(h, ord, level, n) ==
  IF level = 0
  THEN IF getParent(h, n) # NIL THEN "expected root to have no parent" ELSE NoError
  ELSE IF getParent(h, n) = NIL THEN "expected non-root to have parent" ELSE NoError

integrityCheckParentPointsCorrectly(h, ord, level, n) ==
  IF isLeaf(h, n) THEN NoError
  ELSE IF \E i \in 1..Len(h[n].children) : getParent(h, h[n].children[i]) # n
       THEN "parent of child node does not point to correct parent"
       ELSE NoError

\* keyPerNodeChecker.check: the children in order; slices.Min and slices.Max
\* come before the comparisons and panic on a child without keys.
RECURSIVE checkChildrenFrom(_, _, _)
checkChildrenFrom(h, n, i) ==
  IF i > Len(h[n].children) THEN NoError
  ELSE LET keysForChild == collectKeysPerNode(h, h[n].children[i])
           leftmost == (i = 1)
           rightmost == (i = Len(h[n].keys) + 1)
       IN IF keysForChild = {} THEN PanicEmptyMin
          ELSE IF ~leftmost /\ ~(SetMin(keysForChild) >= h[n].keys[i - 1]) THEN "bad min key"
          ELSE IF ~rightmost /\ ~(SetMax(keysForChild) < h[n].keys[i]) THEN "mad max key"
          ELSE checkChildrenFrom(h, n, i + 1)

check(h, ord, level, n) ==
  IF isLeaf(h, n) THEN NoError ELSE checkChildrenFrom(h, n, 1)

\* chainIntegrityCheck over the five checks of IntegrityCheck, in their order.
chainIntegrityCheck(h, ord, level, n) ==
  LET e1 == integrityCheckLeafSize(h, ord, level, n)
      e2 == integrityCheckKeyAndChildrenLen(h, ord, level, n)
      e3 == integrityCheckAllButRootHaveParent(h, ord, level, n)
      e4 == integrityCheckParentPointsCorrectly(h, ord, level, n)
  IN IF e1 # NoError THEN e1
     ELSE IF e2 # NoError THEN e2
     ELSE IF e3 # NoError THEN e3
     ELSE IF e4 # NoError THEN e4
     ELSE check(h, ord, level, n)

\* runRecursiveUntilError that applies the checks to the node and leaves its
\* children out.
runRecursiveUntilError_nodeOnly(h, ord, level, n) == chainIntegrityCheck(h, ord, level, n)

\* innerNode.runRecursiveUntilError and leafNode.runRecursiveUntilError: the
\* node, then its children left to right, until the first error.
RECURSIVE runRecursiveUntilError(_, _, _, _)
RECURSIVE runChildrenFrom(_, _, _, _, _)
runRecursiveUntilError(h, ord, level, n) ==
  LET e == chainIntegrityCheck(h, ord, level, n)
  IN IF e # NoError THEN e
     ELSE IF isLeaf(h, n) THEN NoError
     ELSE runChildrenFrom(h, ord, level, n, 1)

runChildrenFrom(h, ord, level, n, i) ==
  IF i > Len(h[n].children) THEN NoError
  ELSE LET e == runRecursiveUntilError(h, ord, level + 1, h[n].children[i])
       IN IF e # NoError THEN e ELSE runChildrenFrom(h, ord, level, n, i + 1)

IntegrityCheck(h, r, ord) == runRecursiveUntilError(h, ord, 0, r)

----------------------------------------------------------------------------
(* The calls *)

\* New that puts a pair for the zero key into the root leaf.
New_seeded(ord) ==
  [order |-> ord,
   heap |-> <<[newLeafNode EXCEPT !.values = MapPut(<<>>, 0, ZeroValue)]>>,
   root |-> 1]

\* New(order): an empty root leaf.
New(ord) == [order |-> ord, heap |-> <<newLeafNode>>, root |-> 1]

\* ret: fired counts the rebalance-counter calls made during the call.
Ret(op, key, value, ok, err, panic, fired) ==
  [op |-> op, key |-> key, value |-> value, ok |-> ok, err |-> err, panic |-> panic,
   fired |-> fired]

NoCall == Ret("New", 0, ZeroValue, FALSE, NoError, NoPanic, 0)

Init ==
  \E ord \in Orders :
    /\ order = New(ord).order
    /\ heap = New(ord).heap
    /\ root = New(ord).root
    /\ ret = NoCall
    /\ inserted = <<>>
    /\ repeated = FALSE
    /\ accessed = {}
    /\ rebalanceCount = 0
    /\ accessCounter = NewWithAccessCounter

InsertCall(key, value) ==
  LET r == Insert(heap, root, order, key, value)
  IN /\ heap' = r.heap
     /\ root' = r.root
     /\ ret' = Ret("Insert", key, value, FALSE, NoError, r.panic, 0)
     /\ inserted' = MapPut(inserted, key, value)
     /\ repeated' = (repeated \/ key \in DOMAIN inserted)
     /\ UNCHANGED <<order, accessed, rebalanceCount, accessCounter>>

FindCall(key) ==
  LET r == Find(heap, root, key)
  IN /\ heap' = r.heap
     /\ ret' = Ret("Find", key, r.value, r.ok, NoError,
                   IF r.panic THEN "found node index is outside children range"
                   ELSE NoPanic, 0)
     /\ UNCHANGED <<order, root, inserted, repeated, accessed, rebalanceCount, accessCounter>>

IntegrityCheckCall ==
  LET e == IntegrityCheck(heap, root, order)
  IN /\ ret' = IF e = PanicEmptyMin
                THEN Ret("IntegrityCheck", 0, ZeroValue, FALSE, NoError, e, 0)
                ELSE Ret("IntegrityCheck", 0, ZeroValue, FALSE, e, NoPanic, 0)
     /\ UNCHANGED <<order, heap, root, inserted, repeated, accessed, rebalanceCount, accessCounter>>

Next ==
  \/ \E k \in Keys, v \in Vals : InsertCall(k, v)
  \/ \E k \in FindKeys : FindCall(k)
  \/ IntegrityCheckCall

Spec == Init /\ [][Next]_vars

----------------------------------------------------------------------------
(* Insert with split propagation, access counter and rebalance counter.    *)
(* The tree is the record [order, heap, root, accessed, rebalances]:       *)
(* accessed holds the node identities passed to the access-counter         *)
(* callback, rebalances counts the calls of the rebalance-counter callback.*)

Tree(ord, h, r, acc, reb) ==
  [order |-> ord, heap |-> h, root |-> r, accessed |-> acc, rebalances |-> reb]

\* node.countAccess: the node's identity goes to the access-counter callback.
countAccess(t, n) == [t EXCEPT !.accessed = @ \cup {n}]

\* The rebalance-counter callback.
countRebalance(t) == [t EXCEPT !.rebalances = @ + 1]

\* node.setParent.
setParent(t, n, p) == countAccess([t EXCEPT !.heap[n].parent = p], n)

\* A split of an inner node that leaves the children's parent as it was.
setParentAll_none(t, ns, p) == t

RECURSIVE setParentAll(_, _, _)
setParentAll(t, ns, p) ==
  IF ns = <<>> THEN t ELSE setParentAll(setParent(t, Head(ns), p), Tail(ns), p)

\* The nodes findLeafNodeByKey passes through, each counted as accessed.
RECURSIVE descentPath(_, _, _)
descentPath(h, n, seekedKey) ==
  IF isLeaf(h, n) THEN {n}
  ELSE {n} \cup descentPath(h, h[n].children[innerFoundNodeIndex(h[n].keys, seekedKey)],
                            seekedKey)

\* The position of a child in its parent's children (0: not found).
childIndex(h, p, n) ==
  LET at == {i \in 1..Len(h[p].children) : h[p].children[i] = n}
  IN IF at = {} THEN 0 ELSE SetMin(at)

\* The median of an overflowing leaf: the key at position len/2 of its keys in
\* ascending order.
leafMedian(h, n) ==
  LET sorted == slicesSort(SetToSeq(DOMAIN h[n].values))
  IN sorted[(Len(sorted) \div 2) + 1]

\* Entering replace: the node that is replaced was touched, and one split
\* event is reported to the rebalance counter.
replaceEntered_leafOnly(t, nodeToRemove) ==
  IF isLeaf(t.heap, nodeToRemove)
  THEN [t EXCEPT !.accessed = @ \cup {nodeToRemove}, !.rebalances = @ + 1]
  ELSE [t EXCEPT !.accessed = @ \cup {nodeToRemove}]

replaceEntered(t, nodeToRemove) == countRebalance(countAccess(t, nodeToRemove))

\* replace, when nodeToRemove was the root: a new inner node over left and
\* right becomes the root.
replaceAsRoot(t, left, right, separator) ==
  LET newRoot == Len(t.heap) + 1
      t1 == [t EXCEPT !.heap = Append(@, innerNode(<<left, right>>, <<separator>>, NIL))]
      t2 == setParent(setParent(t1, left, newRoot), right, newRoot)
  IN [t2 EXCEPT !.root = replaceRoot(@, newRoot)]

\* A wrong splice: a new inner node over left and right takes the place of
\* nodeToRemove in the parent.
replaceInParent_nested(t, parent, nodeToRemove, left, right, separator) ==
  LET p == CHOOSE i \in 1..Len(t.heap[parent].children) :
             t.heap[parent].children[i] = nodeToRemove
      n == Len(t.heap) + 1
      t1 == [t EXCEPT !.heap = Append(@, innerNode(<<left, right>>, <<separator>>, parent))]
      t2 == [t1 EXCEPT !.heap[parent].children[p] = n,
                       !.accessed = @ \cup {parent, n}]
  IN [t2 EXCEPT !.heap[left].parent = n, !.heap[right].parent = n,
                !.accessed = @ \cup {left, right}]

\* A wrong splice: nodeToRemove stays where it is, as if it had become the
\* left half, and only right is added after it.
replaceInParent_keepsRemoved(t, parent, nodeToRemove, left, right, separator) ==
  LET p == childIndex(t.heap, parent, nodeToRemove)
      ch == t.heap[parent].children
      ks == t.heap[parent].keys
      children == SubSeq(ch, 1, p) \o <<right>> \o SubSeq(ch, p + 1, Len(ch))
      keys == SubSeq(ks, 1, p - 1) \o <<separator>> \o SubSeq(ks, p, Len(ks))
      t1 == countAccess([t EXCEPT !.heap[parent].children = children,
                                  !.heap[parent].keys = keys], parent)
  IN setParent(setParent(t1, left, parent), right, parent)

\* replace, when nodeToRemove has a parent: left and right take the place of
\* nodeToRemove among the parent's children, separator goes into the parent's
\* keys at that position, and left and right get the parent.
replaceInParent(t, parent, nodeToRemove, left, right, separator) ==
  LET p == childIndex(t.heap, parent, nodeToRemove)
      ch == t.heap[parent].children
      ks == t.heap[parent].keys
      children == SubSeq(ch, 1, p - 1) \o <<left, right>> \o SubSeq(ch, p + 1, Len(ch))
      keys == SubSeq(ks, 1, p - 1) \o <<separator>> \o SubSeq(ks, p, Len(ks))
      t1 == countAccess([t EXCEPT !.heap[parent].children = children,
                                  !.heap[parent].keys = keys], parent)
  IN setParent(setParent(t1, left, parent), right, parent)

\* overflows that already reports a node holding exactly order children.
overflows_eager(h, n, ord) == Len(h[n].children) >= ord

\* The overflow check of an inner node.
overflows_late(h, n, ord) == Len(h[n].children) > ord + 1

overflows(h, n, ord) == Len(h[n].children) > ord

\* splitInner with the split made around the last key.
splitInner_lastKey(t, n) ==
  LET children == t.heap[n].children
      keys == t.heap[n].keys
      m == Len(keys)
      lch == SubSeq(children, 1, m)
      rch == SubSeq(children, m + 1, Len(children))
      newLeft == Len(t.heap) + 1
      newRight == Len(t.heap) + 2
      t1 == [t EXCEPT !.heap = @ \o
               << innerNode(lch, SubSeq(keys, 1, m - 1), NIL),
                  innerNode(rch, SubSeq(keys, m + 1, Len(keys)), NIL) >>]
  IN [tree |-> setParentAll(setParentAll(t1, lch, newLeft), rch, newRight),
      left |-> newLeft, right |-> newRight, separator |-> keys[m]]

\* splitInner with the split made around the first key.
splitInner_firstKey(t, n) ==
  LET children == t.heap[n].children
      keys == t.heap[n].keys
      m == 1
      lch == SubSeq(children, 1, m)
      rch == SubSeq(children, m + 1, Len(children))
      newLeft == Len(t.heap) + 1
      newRight == Len(t.heap) + 2
      t1 == [t EXCEPT !.heap = @ \o
               << innerNode(lch, SubSeq(keys, 1, m - 1), NIL),
                  innerNode(rch, SubSeq(keys, m + 1, Len(keys)), NIL) >>]
  IN [tree |-> setParentAll(setParentAll(t1, lch, newLeft), rch, newRight),
      left |-> newLeft, right |-> newRight, separator |-> keys[m]]

\* The split of an overflowing inner node around its median key, the key at
\* position len(keys)/2: two new inner nodes, which take over the children.
splitInner(t, n) ==
  LET children == t.heap[n].children
      keys == t.heap[n].keys
      m == (Len(keys) \div 2) + 1
      lch == SubSeq(children, 1, m)
      rch == SubSeq(children, m + 1, Len(children))
      newLeft == Len(t.heap) + 1
      newRight == Len(t.heap) + 2
      t1 == [t EXCEPT !.heap = @ \o
               << innerNode(lch, SubSeq(keys, 1, m - 1), NIL),
                  innerNode(rch, SubSeq(keys, m + 1, Len(keys)), NIL) >>]
  IN [tree |-> setParentAll(setParentAll(t1, lch, newLeft), rch, newRight),
      left |-> newLeft, right |-> newRight, separator |-> keys[m]]

\* replace(nodeToRemove, left, right, separator): left and right are new nodes
\* of the heap, without a parent yet.
RECURSIVE replace(_, _, _, _, _)
replace(t, nodeToRemove, left, right, separator) ==
  LET t0 == replaceEntered(t, nodeToRemove)
      parent == getParent(t.heap, nodeToRemove)
  IN IF parent = NIL
     THEN replaceAsRoot(t0, left, right, separator)
     ELSE LET t1 == replaceInParent(t0, parent, nodeToRemove, left, right, separator)
          IN IF ~overflows(t1.heap, parent, t1.order)
             THEN t1
             ELSE LET s == splitInner(t1, parent)
                  IN replace(s.tree, parent, s.left, s.right, s.separator)

\* Insert(key, value): descend, store the pair, split the leaf when it holds
\* more than order pairs and repair upward.
InsertAndReplace(t, key, value) ==
  LET leaf == findLeafNodeByKey(t.heap, t.root, key)
      t1 == [t EXCEPT !.accessed = @ \cup descentPath(t.heap, t.root, key)]
      t2 == [t1 EXCEPT !.heap = insertAssumingHasSpace(@, leaf, key, value)]
  IN IF MapLen(t2.heap[leaf].values) <= t.order
     THEN t2
     ELSE LET median == leafMedian(t2.heap, leaf)
              s == splitAroundMedian(t2.heap, leaf, median)
              left == Len(t2.heap) + 1
              right == Len(t2.heap) + 2
              t3 == [t2 EXCEPT !.heap = @ \o <<s.left, s.right>>]
          IN replace(t3, leaf, left, right, median)

InsertReplaceCall(key, value) ==
  LET t == InsertAndReplace(Tree(order, heap, root, {}, rebalanceCount), key, value)
  IN /\ heap' = t.heap
     /\ root' = t.root
     /\ accessed' = accessed \cup {n \in t.accessed : holdsCounter(accessCounter, n)}
     /\ rebalanceCount' = t.rebalances
     /\ ret' = Ret("Insert", key, value, FALSE, NoError, NoPanic,
                   t.rebalances - rebalanceCount)
     /\ inserted' = MapPut(inserted, key, value)
     /\ repeated' = (repeated \/ key \in DOMAIN inserted)
     /\ UNCHANGED <<order, accessCounter>>

NextRepair == \E k \in RepairKeys : InsertReplaceCall(k, k)

SpecRepair == Init /\ [][NextRepair]_vars

----------------------------------------------------------------------------
(* The tree made by New without a callback, and SetAccessCounter called at *)
(* some point between the Inserts.                                         *)

\* SetAccessCounter(callback): the tree keeps the callback, for the nodes it
\* makes from now on, and hands it to the root; no other node gets it.
SetAccessCounter(h, r) == [set |-> TRUE, since |-> Len(h), retrofitted |-> r]

SetAccessCounterCall ==
  /\ ~accessCounter.set
  /\ accessCounter' = SetAccessCounter(heap, root)
  /\ ret' = Ret("SetAccessCounter", 0, ZeroValue, FALSE, NoError, NoPanic, 0)
  /\ UNCHANGED <<order, heap, root, inserted, repeated, accessed, rebalanceCount>>

InitAttach ==
  \E ord \in Orders :
    /\ order = New(ord).order
    /\ heap = New(ord).heap
    /\ root = New(ord).root
    /\ ret = NoCall
    /\ inserted = <<>>
    /\ repeated = FALSE
    /\ accessed = {}
    /\ rebalanceCount = 0
    /\ accessCounter = NewWithoutCounter

NextAttach ==
  \/ SetAccessCounterCall
  \/ \E k \in RepairKeys : InsertReplaceCall(k, k)

SpecAttach == InitAttach /\ [][NextAttach]_vars

----------------------------------------------------------------------------
(* The same Insert with the iteration order of the leaf's map left open:   *)
(* `for k := range n.values` visits the keys in an order Go does not fix,  *)
(* once to collect the keys for the median and once to split.              *)

\* The orders in which a range loop can visit the keys S.
rangeOrders(S) ==
  {seq \in [1..Cardinality(S) -> S] : \A i, j \in DOMAIN seq : i # j => seq[i] # seq[j]}

\* The median of the keys collected in the order visited: sorted, then the
\* key at position len/2.
leafMedianOver(visited) ==
  LET sorted == slicesSort(visited)
  IN sorted[(Len(sorted) \div 2) + 1]

\* splitAroundMedian that sends the first half of the keys visited to the
\* left leaf and the others to the right one.
splitAroundMedianOver_byPosition(vs, visited, median) ==
  LET half == Len(visited) \div 2
      L == {visited[i] : i \in 1..half}
      R == {visited[i] : i \in (half + 1)..Len(visited)}
  IN [left |-> [newLeafNode EXCEPT !.values = [k \in L |-> vs[k]]],
      right |-> [newLeafNode EXCEPT !.values = [k \in R |-> vs[k]]]]

\* leafNode.splitAroundMedian, pair by pair in the order visited: a key below
\* the median goes into the left leaf, any other into the right one.
RECURSIVE splitAroundMedianOver(_, _, _)
splitAroundMedianOver(vs, visited, median) ==
  IF visited = <<>> THEN [left |-> newLeafNode, right |-> newLeafNode]
  ELSE LET k == visited[Len(visited)]
           s == splitAroundMedianOver(vs, SubSeq(visited, 1, Len(visited) - 1), median)
       IN IF k < median
          THEN [s EXCEPT !.left.values = MapPut(@, k, vs[k])]
          ELSE [s EXCEPT !.right.values = MapPut(@, k, vs[k])]

\* Insert(key, value) with the two loops over the overflowing leaf visiting
\* its keys in the orders forMedian and forSplit.
InsertAndReplaceOver(t, key, value, forMedian, forSplit) ==
  LET leaf == findLeafNodeByKey(t.heap, t.root, key)
      t1 == [t EXCEPT !.accessed = @ \cup descentPath(t.heap, t.root, key)]
      t2 == [t1 EXCEPT !.heap = insertAssumingHasSpace(@, leaf, key, value)]
  IN IF MapLen(t2.heap[leaf].values) <= t.order
     THEN t2
     ELSE LET median == leafMedianOver(forMedian)
              s == splitAroundMedianOver(t2.heap[leaf].values, forSplit, median)
              left == Len(t2.heap) + 1
              right == Len(t2.heap) + 2
              t3 == [t2 EXCEPT !.heap = @ \o <<s.left, s.right>>]
          IN replace(t3, leaf, left, right, median)

\* The keys the target leaf of Insert(key) holds once the pair is stored.
keysAfterStore(h, r, key) == DOMAIN h[findLeafNodeByKey(h, r, key)].values \cup {key}

InsertOverCall(key, value, forMedian, forSplit) ==
  LET t == InsertAndReplaceOver(Tree(order, heap, root, {}, rebalanceCount),
                                key, value, forMedian, forSplit)
  IN /\ heap' = t.heap
     /\ root' = t.root
     /\ accessed' = accessed \cup {n \in t.accessed : holdsCounter(accessCounter, n)}
     /\ rebalanceCount' = t.rebalances
     /\ ret' = Ret("Insert", key, value, FALSE, NoError, NoPanic,
                   t.rebalances - rebalanceCount)
     /\ inserted' = MapPut(inserted, key, value)
     /\ repeated' = (repeated \/ key \in DOMAIN inserted)
     /\ UNCHANGED <<order, accessCounter>>

\* The orders the loops of Insert(key) can take: none when the leaf takes the
\* pair without a split, the loops not being run.
loopOrders(h, r, ord, key) ==
  IF Cardinality(keysAfterStore(h, r, key)) <= ord THEN {<<>>}
  ELSE rangeOrders(keysAfterStore(h, r, key))

\* One loop at a time is left open, the other visiting in ascending order:
\* the first loop ends before the second starts and hands it the median only.
NextRange ==
  \E k \in RepairKeys :
    LET ascending == SetToSeq(keysAfterStore(heap, root, k))
    IN \/ \E forMedian \in loopOrders(heap, root, order, k) :
            InsertOverCall(k, k, forMedian, ascending)
       \/ \E forSplit \in loopOrders(heap, root, order, k) :
            InsertOverCall(k, k, ascending, forSplit)

SpecRange == Init /\ [][NextRange]_vars

\* The same Insert on a tree of the next order, with keys enough for a leaf
\* of that order to split next to two separators of its parent.
WideOrder == MaxOrder + 1
WideKeys == 1..(MaxRepairKey + 2)

InitWide ==
  /\ order = New(WideOrder).order
  /\ heap = New(WideOrder).heap
  /\ root = New(WideOrder).root
  /\ ret = NoCall
  /\ inserted = <<>>
  /\ repeated = FALSE
  /\ accessed = {}
  /\ rebalanceCount = 0
  /\ accessCounter = NewWithAccessCounter

NextWide == \E k \in WideKeys : InsertReplaceCall(k, k)

SpecRepairWide == InitWide /\ [][NextWide]_vars

----------------------------------------------------------------------------
(* Find and IntegrityCheck as functions of the tree they are given: trees  *)
(* of one leaf, and trees of an inner root over two or three leaves, well  *)
(* formed or not.  Every key sits in at most one leaf, its value is the    *)
(* key.  The trees draw one key more than Insert does, so that a leaf can  *)
(* exceed the order next to a sibling that is not empty; the defects of    *)
(* the key and parent fields are drawn for the trees of two leaves.        *)

FamilyChildren == {2, 3}
Defects == {"none", "childParent", "rootParent", "missingKey", "extraKey"}
TreeKeys == 1..(MaxKey + 1)
DefectsOf(n) == IF n = 2 THEN Defects ELSE {"none"}

leafWith(S, parent) == [newLeafNode EXCEPT !.values = [k \in S |-> k], !.parent = parent]

\* The tree of a root leaf holding the keys S.
leafTree(S) == <<leafWith(S, NIL)>>

\* The tree of an inner root (node 1) with separator keys ks over n leaves
\* (nodes 2..n+1); place[k] is the child that holds key k, 0 for none.
innerTree(n, ks, place, defect) ==
  LET keys == CASE defect = "missingKey" -> SubSeq(ks, 1, Len(ks) - 1)
                [] defect = "extraKey" -> Append(ks, ks[Len(ks)])
                [] OTHER -> ks
      rootParent == IF defect = "rootParent" THEN n + 1 ELSE NIL
      parentOf(i) == IF defect = "childParent" /\ i = n THEN NIL ELSE 1
  IN <<innerNode([i \in 1..n |-> i + 1], keys, rootParent)>> \o
     [i \in 1..n |-> leafWith({k \in TreeKeys : place[k] = i}, parentOf(i))]

InitTrees ==
  /\ order \in Orders
  /\ \/ \E S \in SUBSET TreeKeys : heap = leafTree(S)
     \/ \E n \in FamilyChildren :
          \E ks \in [1..(n - 1) -> TreeKeys], place \in [TreeKeys -> 0..n],
             defect \in DefectsOf(n) :
            heap = innerTree(n, ks, place, defect)
  /\ root = 1
  /\ ret = NoCall
  /\ inserted = <<>>
  /\ repeated = FALSE
  /\ accessed = {}
  /\ rebalanceCount = 0
  /\ accessCounter = NewWithAccessCounter

NextTrees ==
  \/ \E k \in FindKeys : FindCall(k)
  \/ IntegrityCheckCall

SpecTrees == InitTrees /\ [][NextTrees]_vars

\* Insert applied to those of the trees that IntegrityCheck accepts.
InitIntactTrees == InitTrees /\ IntegrityCheck(heap, root, order) = NoError

NextTreesInsert == \E k \in RepairKeys : InsertCall(k, k)

SpecTreesInsert == InitIntactTrees /\ [][NextTreesInsert]_vars

----------------------------------------------------------------------------
(* What the properties below speak of.                                     *)

Range(f) == {f[i] : i \in DOMAIN f}

\* The nodes of the tree under node n.
RECURSIVE Reach(_, _)
Reach(h, n) ==
  IF isLeaf(h, n) THEN {n}
  ELSE {n} \cup UNION {Reach(h, c) : c \in Range(h[n].children)}

\* The levels at which the leaves under n sit, n being at level.
RECURSIVE leafLevels(_, _, _)
leafLevels(h, n, level) ==
  IF isLeaf(h, n) THEN {level}
  ELSE UNION {leafLevels(h, c, level + 1) : c \in Range(h[n].children)}

Leaves(h, r) == {n \in Reach(h, r) : isLeaf(h, n)}
InnerNodes(h, r) == {n \in Reach(h, r) : ~isLeaf(h, n)}

\* The keys stored in the tree, and the leaves that hold a pair of key k.
StoredKeys(h, r) == UNION {DOMAIN h[n].values : n \in Leaves(h, r)}
LeavesWithKey(h, r, k) == {n \in Leaves(h, r) : k \in DOMAIN h[n].values}

AfterInsert == ret.op = "Insert"

----------------------------------------------------------------------------
\* C1 (Spec): after Insert calls of distinct keys, Find gives every inserted
\* key its value with ok, and every other key the zero value without ok.
C1_RoundTrip ==
  ~repeated =>
    /\ \A k \in DOMAIN inserted :
         Find(heap, root, k).ok /\ Find(heap, root, k).value = inserted[k]
    /\ \A k \in FindKeys \ DOMAIN inserted :
         ~Find(heap, root, k).ok /\ Find(heap, root, k).value = ZeroValue

C4_Overwrite ==
  [][(ret'.op = "Insert" /\ ret'.key \in DOMAIN inserted) =>
       /\ Find(heap', root', ret'.key).ok
       /\ Find(heap', root', ret'.key).value = ret'.value
       /\ Cardinality(LeavesWithKey(heap', root', ret'.key)) = 1
       /\ StoredKeys(heap', root') = StoredKeys(heap, root)]_vars

C6_NeverPanics == ret.op \in {"Insert", "Find"} => ret.panic = NoPanic

C8_ReadOnly ==
  [][ret'.op \in {"Find", "IntegrityCheck"} => heap' = heap /\ root' = root]_vars

\* Find did not find its key in a tree of an inner root that IntegrityCheck
\* reports an error of.
C8_Witness ==
  /\ ret.op = "Find"
  /\ ~ret.ok
  /\ ~isLeaf(heap, root)
  /\ IntegrityCheck(heap, root, order) \notin {NoError, PanicEmptyMin}

----------------------------------------------------------------------------
\* The child index the descent is to take: the leftmost separator strictly
\* greater than the key, the last child when there is none.
leftmostGreater(keys, k) ==
  LET hits == {i \in 1..Len(keys) : keys[i] > k}
  IN IF hits = {} THEN Len(keys) + 1 ELSE SetMin(hits)

StrictlyAscending(s) == \A i \in 1..(Len(s) - 1) : s[i] < s[i + 1]

\* The root is an inner node with ascending keys and one child more than keys.
AscendingInnerRoot ==
  /\ ~isLeaf(heap, root)
  /\ StrictlyAscending(heap[root].keys)
  /\ Len(heap[root].children) = Len(heap[root].keys) + 1

\* C11 (SpecTrees): from an inner node with ascending separator keys,
\* findLeafNodeByKey goes into the child at the leftmost index whose separator
\* is strictly greater than the key, and into the last child when none is.
C11_DescentRouting ==
  AscendingInnerRoot =>
    \A k \in FindKeys :
      findLeafNodeByKey(heap, root, k) =
        heap[root].children[leftmostGreater(heap[root].keys, k)]

\* Every key under child i of inner node n is at least the separator on its
\* left and smaller than the separator on its right.
KeyRangesHold(h, n) ==
  \A i \in 1..Len(h[n].children) :
    \A k \in StoredKeys(h, h[n].children[i]) :
      /\ (i = 1 \/ h[n].keys[i - 1] <= k)
      /\ (i > Len(h[n].keys) \/ k < h[n].keys[i])

C13_DescentAgreesWithCheck ==
  IntegrityCheck(heap, root, order) = NoError =>
    /\ ~isLeaf(heap, root) =>
         \A i \in 1..Len(heap[root].keys) :
           findLeafNodeByKey(heap, root, heap[root].keys[i]) = heap[root].children[i + 1]
    /\ \A n \in Leaves(heap, root) :
         \A k \in DOMAIN heap[n].values : findLeafNodeByKey(heap, root, k) = n

----------------------------------------------------------------------------
\* The step is an Insert call of a key the tree does not store.
InsertOfNewKey == ret'.op = "Insert" /\ ret'.key \notin StoredKeys(heap, root)

\* The leaf the Insert call of the step descends to.
TargetLeaf == findLeafNodeByKey(heap, root, ret'.key)

\* The step only adds the pair of the call to the target leaf.
PairStoredInPlace ==
  /\ heap' = [heap EXCEPT ![TargetLeaf].values = MapPut(@, ret'.key, ret'.value)]
  /\ root' = root

\* The pairs of the target leaf together with the pair of the call.
PairsWithNew == MapPut(heap[TargetLeaf].values, ret'.key, ret'.value)

\* The key at position len/2 of a set of keys in ascending order.
positionalMedian(S) == SetToSeq(S)[(Cardinality(S) \div 2) + 1]

\* The two nodes a split adds to the heap.
NewLeft == Len(heap) + 1
NewRight == Len(heap) + 2

\* C16 (Spec): an Insert of a new key whose target leaf holds fewer than
\* order pairs only adds the pair to that leaf: no node is created, the root
\* stays, the rebalance counter is not called.
C16_NoSplitWithoutOverflow ==
  [][(InsertOfNewKey /\ MapLen(heap[TargetLeaf].values) < order) =>
       /\ PairStoredInPlace
       /\ Len(heap') = Len(heap)
       /\ rebalanceCount' = rebalanceCount]_vars

\* The step split the target leaf: two new leaves, left with the pairs below
\* the median key, right with the others, together the pairs of the leaf and
\* the pair of the call, both non-empty, and the median key is a separator
\* key of their parent.
LeafSplitAroundMedian ==
  LET median == positionalMedian(DOMAIN PairsWithNew)
  IN /\ Len(heap') >= NewRight
     /\ isLeaf(heap', NewLeft) /\ isLeaf(heap', NewRight)
     /\ heap'[NewLeft].values =
          [k \in {x \in DOMAIN PairsWithNew : x < median} |-> PairsWithNew[k]]
     /\ heap'[NewRight].values =
          [k \in {x \in DOMAIN PairsWithNew : x >= median} |-> PairsWithNew[k]]
     /\ DOMAIN heap'[NewLeft].values # {} /\ DOMAIN heap'[NewRight].values # {}
     /\ heap'[NewLeft].parent # NIL
     /\ median \in Range(heap'[heap'[NewLeft].parent].keys)

\* C17 (Spec): an Insert of a new key either finds room in the leaf, or the
\* leaf is split into left (keys below the median) and right (keys from the
\* median on) that hold exactly the leaf's pairs and the new pair, both
\* non-empty, with the median key passed upward as the separator.
C17_LeafSplitPartition ==
  [][InsertOfNewKey => (PairStoredInPlace \/ LeafSplitAroundMedian)]_vars

\* C18 (Spec): for a full leaf and a new key, the median is the key at
\* position len/2 of the leaf's keys and the new key in ascending order, one
\* of those keys.
C18_MedianSelection ==
  \A k \in Keys :
    LET leaf == findLeafNodeByKey(heap, root, k)
        m == medianKeyForChildrenAndKey(heap, leaf, k)
        all == DOMAIN heap[leaf].values \cup {k}
    IN (k \notin DOMAIN heap[leaf].values /\ isFull(heap, leaf, order).full) =>
         /\ ~m.panic
         /\ m.median = positionalMedian(all)
         /\ m.median \in all

\* The step replaced the root leaf by a new inner node over two new nodes:
\* children [left, right], one key, the parent of left and right is the new
\* root, which has no parent itself.
RootReplacedBySplit ==
  /\ Len(heap') = Len(heap) + 3
  /\ root' \notin 1..Len(heap)
  /\ ~isLeaf(heap', root')
  /\ heap'[root'].children = <<NewLeft, NewRight>>
  /\ Len(heap'[root'].keys) = 1
  /\ heap'[NewLeft].parent = root' /\ heap'[NewRight].parent = root'
  /\ heap'[root'].parent = NIL

\* C19 (Spec): an Insert of a new key into a root leaf either finds room in
\* it, or a new inner node with children [left, right] and keys [separator]
\* becomes the root, left and right get it as parent, and it has no parent.
C19_RootSplit ==
  [][(InsertOfNewKey /\ isLeaf(heap, root)) =>
       (PairStoredInPlace \/ RootReplacedBySplit)]_vars

\* The step put two new nodes in the place of the target leaf in its parent:
\* left and right at the leaf's position, one key more at that position, the
\* other children and keys as before, left and right under the same parent.
SplicedIntoParent ==
  LET parent == heap[TargetLeaf].parent
      ch == heap[parent].children
      ks == heap[parent].keys
      p == CHOOSE i \in 1..Len(ch) : ch[i] = TargetLeaf
  IN /\ Len(heap') >= NewRight
     /\ root' = root
     /\ heap'[parent].children =
          SubSeq(ch, 1, p - 1) \o <<NewLeft, NewRight>> \o SubSeq(ch, p + 1, Len(ch))
     /\ Len(heap'[parent].keys) = Len(ks) + 1
     /\ SubSeq(heap'[parent].keys, 1, p - 1) = SubSeq(ks, 1, p - 1)
     /\ SubSeq(heap'[parent].keys, p + 1, Len(ks) + 1) = SubSeq(ks, p, Len(ks))
     /\ heap'[NewLeft].parent = parent /\ heap'[NewRight].parent = parent

\* C20 (SpecTreesInsert): in a tree IntegrityCheck accepts, an Insert of a new
\* key into a leaf that is not the root, under a parent with fewer than order
\* children, either finds room in the leaf or splices left and right with the
\* separator into the parent at the leaf's position.
C20_SpliceIntoParent ==
  [][(/\ InsertOfNewKey
      /\ IntegrityCheck(heap, root, order) = NoError
      /\ ~isLeaf(heap, root)
      /\ Len(heap[root].children) < order) =>
       (PairStoredInPlace \/ SplicedIntoParent)]_vars

----------------------------------------------------------------------------
\* The inner nodes an Insert splits: those of the tree before that the tree
\* after no longer holds.  A split node stays in the heap as it was when it
\* overflowed, with the spliced children and keys.
SplitInnerNodes == InnerNodes(heap, root) \ Reach(heap', root')

NewNodes == (Len(heap) + 1)..Len(heap')

\* Node p was split around the key at position len(keys)/2 into the new inner
\* nodes l and r, and that key went up between them: into the parent p had,
\* or into the new root when p was the root.
InnerSplitAroundMedian(p, l, r) ==
  LET children == heap'[p].children
      keys == heap'[p].keys
      idx == Len(keys) \div 2
      up == IF p = root THEN root' ELSE getParent(heap, p)
  IN /\ Len(children) > order
     /\ ~isLeaf(heap', l) /\ ~isLeaf(heap', r)
     /\ heap'[l].children \o heap'[r].children = children
     /\ heap'[l].keys = SubSeq(keys, 1, idx)
     /\ heap'[r].keys = SubSeq(keys, idx + 2, Len(keys))
     /\ \A n \in {l, r} : /\ Len(heap'[n].children) = Len(heap'[n].keys) + 1
                           /\ Len(heap'[n].children) >= 1
     /\ p = root => root' \in NewNodes
     /\ \E i \in 1..Len(heap'[up].keys) :
          /\ heap'[up].children[i] = l
          /\ heap'[up].children[i + 1] = r
          /\ heap'[up].keys[i] = keys[idx + 1]

OldRootOverflowed ==
  IF isLeaf(heap', root)
  THEN MapLen(heap'[root].values) > order
  ELSE Len(heap'[root].children) > order

RECURSIVE AtLevel(_, _, _)
AtLevel(h, r, l) ==
  IF l = 0 THEN {r}
  ELSE UNION {Range(h[n].children) : n \in {x \in AtLevel(h, r, l - 1) : ~isLeaf(h, x)}}

\* The nodes an Insert splits: those of the tree before that the tree after
\* no longer holds.
SplitNodes == Reach(heap, root) \ Reach(heap', root')

RECURSIVE inOrderKeys(_, _)
RECURSIVE inOrderKeysFrom(_, _, _)
inOrderKeys(h, n) ==
  IF isLeaf(h, n) THEN SetToSeq(DOMAIN h[n].values)
  ELSE inOrderKeysFrom(h, n, 1)

inOrderKeysFrom(h, n, i) ==
  IF i > Len(h[n].children) THEN <<>>
  ELSE inOrderKeys(h, h[n].children[i]) \o inOrderKeysFrom(h, n, i + 1)

C27_RejectsNonStrictSeparators ==
  (/\ ret.op = "IntegrityCheck"
   /\ \E n \in InnerNodes(heap, root) :
        \/ ~StrictlyAscending(heap[n].keys)
        \/ Len(heap[n].children) # Len(heap[n].keys) + 1)
  => ret.err # NoError

\* The visits of a pre-order walk from node n at level: the node, then the
\* subtrees of its children left to right, one level down.
RECURSIVE preOrder(_, _, _)
RECURSIVE preOrderFrom(_, _, _, _)
preOrder(h, n, level) ==
  <<[node |-> n, level |-> level]>> \o
  (IF isLeaf(h, n) THEN <<>> ELSE preOrderFrom(h, n, level, 1))

preOrderFrom(h, n, level, i) ==
  IF i > Len(h[n].children) THEN <<>>
  ELSE preOrder(h, h[n].children[i], level + 1) \o preOrderFrom(h, n, level, i + 1)

\* The checks of IntegrityCheck in the order they are listed.
ListedChecks ==
  <<"LeafSize", "KeyAndChildrenLen", "AllButRootHaveParent", "ParentPointsCorrectly",
    "keyPerNodeChecker">>

applyCheck(c, h, ord, level, n) ==
  CASE c = "LeafSize" -> integrityCheckLeafSize(h, ord, level, n)
    [] c = "KeyAndChildrenLen" -> integrityCheckKeyAndChildrenLen(h, ord, level, n)
    [] c = "AllButRootHaveParent" -> integrityCheckAllButRootHaveParent(h, ord, level, n)
    [] c = "ParentPointsCorrectly" -> integrityCheckParentPointsCorrectly(h, ord, level, n)
    [] c = "keyPerNodeChecker" -> check(h, ord, level, n)

\* The outcome of the first failing (visit, check) from visit v and check c
\* on, nothing after it being applied; NoError when none fails.
RECURSIVE firstFailing(_, _, _, _, _)
firstFailing(h, ord, visits, v, c) ==
  IF v > Len(visits) THEN NoError
  ELSE IF c > Len(ListedChecks) THEN firstFailing(h, ord, visits, v + 1, 1)
  ELSE LET e == applyCheck(ListedChecks[c], h, ord, visits[v].level, visits[v].node)
       IN IF e # NoError THEN e ELSE firstFailing(h, ord, visits, v, c + 1)

halfOrder(m) == (m + 1) \div 2

owners(h, r, n) ==
  UNION {{<<p, i>> : i \in {j \in 1..Len(h[p].children) : h[p].children[j] = n}} :
           p \in InnerNodes(h, r)}

\* Node n holds, after the Insert, more than order pairs or children.
overflowedAfter(n) ==
  IF isLeaf(heap', n)
  THEN MapLen(heap'[n].values) > order
  ELSE Len(heap'[n].children) > order

touchedBy(key, value) ==
  InsertAndReplace(Tree(order, heap, root, {}, rebalanceCount), key, value).accessed

\* The nodes that were there, the root apart, when SetAccessCounter was
\* called.
NodesBeforeCounter == (1..accessCounter.since) \ {accessCounter.retrofitted}

C33_ReinsertNeverRestructures ==
  [][ret'.op = "Insert" /\ ret'.key \in StoredKeys(heap, root) =>
       /\ \E n \in LeavesWithKey(heap, root, ret'.key) :
            heap' = [heap EXCEPT ![n].values[ret'.key] = ret'.value]
       /\ root' = root
       /\ rebalanceCount' = rebalanceCount
       /\ ret'.fired = 0]_vars

height(h, r) == SetMax(leafLevels(h, r, 0))

C36_EmptyTree ==
  inserted = <<>> =>
    /\ isLeaf(heap, root)
    /\ MapLen(heap[root].values) = 0
    /\ getParent(heap, root) = NIL
    /\ \A k \in FindKeys : ~Find(heap, root, k).ok
    /\ ret.op = "Find" => ~ret.ok /\ ret.panic = NoPanic
    /\ IntegrityCheck(heap, root, order) = NoError
    /\ ret.op = "IntegrityCheck" => ret.err = NoError /\ ret.panic = NoPanic

\* IntegrityCheck was called on the tree of New.
C36_Witness == inserted = <<>> /\ ret.op = "IntegrityCheck"

============================================================================
